---- MODULE Spec2Model ----
(***************************************************************************)
(* The consultation-booking backend: the relational tables, the request     *)
(* handlers registered by registerRoutes, and the MemStorage /              *)
(* DatabaseStorage repository classes.                                      *)
(*                                                                          *)
(* One action per request handler.  A handler that reads a row and later    *)
(* writes depending on what it read (signup, password reset request,        *)
(* password reset, owner update) is split at the await between the read and *)
(* the write, so that concurrent requests interleave as they do on the      *)
(* event loop; the handler's locals wait in a slot of `inflight`.           *)
(*                                                                          *)
(* Encodings.  A null text column is Null, an absent (undefined) body field *)
(* is Absent, a null integer id is NoId (serial ids start at 1), a null     *)
(* timestamp is NoTime, a null booking id is NoBooking.  Time is Date.now() *)
(* in milliseconds, counted from an origin that is a whole second.          *)
(* Columns no handler reads or writes after insertion (fullName, createdAt, *)
(* updatedAt) are left out of the rows; tables are kept in insertion order, *)
(* which is the order of createdAt.                                         *)
(***************************************************************************)
EXTENDS Integers, Sequences, FiniteSets, TLC

(* ------------------------------ bounds ------------------------------- *)
MaxTicks == 2
MaxUsers == 2
MaxConsultations == 2
MaxContacts == 1
MaxInflight == 2
MaxIssued == 2
MaxMemRecords == 2

(* --------------------------- encodings ------------------------------- *)
Null == "<null>"
Absent == "<undefined>"
NoId == 0
NoTime == -1
NoBooking == <<>>
Idle == [op |-> "idle"]

(* JS truthiness of a body field or column: undefined, null and "" are falsy *)
Truthy(v) == v \notin {Absent, Null, ""}

(* ------------------------ credential service ------------------------- *)
JwtSecret == "changeme"
\* expiresIn: "7d", in seconds
JwtTtlSec == 7 * 24 * 60 * 60
\* 1000 * 60 * 60 ms
ResetTtlMs == 1000 * 60 * 60
MinPasswordLen == 6

\* bcrypt.hash(password, 10)
BcryptHash(password) == <<"$2a$10$", password>>
\* variant: every password compares equal
BcryptCompareAny(password, hash) == TRUE
\* bcrypt.compare(password, hash)
BcryptCompare(password, hash) == hash = BcryptHash(password)

\* jwt.sign(payload, secret, {expiresIn: "7d"}): iat and exp are whole seconds
JwtSign(payload, secret, t) ==
  payload @@ [iat |-> t \div 1000, exp |-> (t \div 1000) + JwtTtlSec, key |-> secret]
\* variant: the signature is verified and exp is not looked at
JwtVerifyIgnoringExp(token, secret, t) == token.key = secret
\* jwt.verify(token, secret): the signature matches and the clock is before exp
JwtVerify(token, secret, t) == token.key = secret /\ (t \div 1000) < token.exp
\* a claim of a decoded payload; a missing one reads as undefined
Claim(token, f, undef) == IF f \in DOMAIN token THEN token[f] ELSE undef

NoHeader == [scheme |-> "none"]
BasicHeader == [scheme |-> "Basic"]
Bearer(token) == [scheme |-> "Bearer", token |-> token]
\* authHeader && authHeader.startsWith('Bearer ')
IsBearer(hdr) == hdr.scheme = "Bearer"

(* ------------------------------ state -------------------------------- *)
VARIABLES
  now,              \* Date.now()
  ticks,            \* how often the clock has advanced
  users,            \* table users, in insertion order
  userSerial,       \* the serial sequence of users.id (last value drawn)
  admins,           \* table admins
  consultations,    \* table consultations, in insertion order
  contactInquiries, \* table contact_inquiries, in insertion order
  issued,           \* bearer tokens the login routes have handed out
  signedAt,         \* history: <<token, Date.now() at its jwt.sign>>
  inflight,         \* handlers waiting between their read and their write
  mem,              \* a MemStorage instance
  spent,            \* history: <<user id, reset token>> consumed by a successful
                    \* reset, kept until that user's next reset request is stored
  superseded,       \* history: <<user id, reset token, its expiry>> that a later
                    \* reset request of that user has overwritten with another
                    \* token (the latest overwrite of each token)
  req,              \* history: the step just taken (the route and what it names)
  resp              \* the response it sent (status 0: none yet)

vars == <<now, ticks, users, userSerial, admins, consultations, contactInquiries,
          issued, signedAt, inflight, mem, spent, superseded, req, resp>>

Slots == 1 .. MaxInflight

Resp(status, success, message) ==
  [status |-> status, success |-> success, message |-> message]
NoResp == Resp(0, FALSE, "")

\* db.select().from(table).where(...) is SelectSeq: the rows, in table order
First(rows, none) == IF Len(rows) > 0 THEN rows[1] ELSE none
NoRow == [id |-> NoId]

UsersByEmail(email) == SelectSeq(users, LAMBDA u : u.email = email)
UsersById(id) == SelectSeq(users, LAMBDA u : u.id = id)
AdminsByEmail(email) == SelectSeq(admins, LAMBDA a : a.email = email)
AdminsById(id) == SelectSeq(admins, LAMBDA a : a.id = id)
ConsultationsById(id) == SelectSeq(consultations, LAMBDA c : c.id = id)
ContactsById(id) == SelectSeq(contactInquiries, LAMBDA c : c.id = id)

\* db.update(table).set(fields).where(eq(table.id, id))
SetFields(row, fields) ==
  [f \in DOMAIN row |-> IF f \in DOMAIN fields THEN fields[f] ELSE row[f]]
\* a set clause built from body fields: the query builder drops the undefined ones
Defined(fields) == [f \in {g \in DOMAIN fields : fields[g] # Absent} |-> fields[f]]
\* variant: a row whose status is 'completed' is closed to further updates
UpdateByIdUnlessCompleted(table, id, fields) ==
  [i \in 1 .. Len(table) |->
     IF table[i].id = id /\ table[i].status # "completed"
     THEN SetFields(table[i], fields) ELSE table[i]]
UpdateById(table, id, fields) ==
  [i \in 1 .. Len(table) |->
     IF table[i].id = id THEN SetFields(table[i], fields) ELSE table[i]]

SeedAdmin ==
  [id |-> 1, email |-> "admin@x.com", passwordHash |-> BcryptHash("adminpw"),
   securityCode |-> "4711"]

\* new MemStorage()
MemStorageNew ==
  [users |-> <<>>, consultations |-> <<>>, contactInquiries |-> <<>>,
   currentUserId |-> 1, currentConsultationId |-> 1, currentContactId |-> 1]

Init ==
  /\ now = 0
  /\ ticks = 0
  /\ users = <<>>
  /\ userSerial = 0
  /\ admins = <<SeedAdmin>>
  /\ consultations = <<>>
  /\ contactInquiries = <<>>
  /\ issued = {}
  /\ signedAt = {}
  /\ inflight = [s \in Slots |-> Idle]
  /\ mem = MemStorageNew
  /\ spent = {}
  /\ superseded = {}
  /\ req = [op |-> "init"]
  /\ resp = NoResp

\* the clock advances by d milliseconds
Tick(d) ==
  /\ ticks < MaxTicks
  /\ now' = now + d
  /\ ticks' = ticks + 1
  /\ req' = [op |-> "Tick"]
  /\ resp' = NoResp
  /\ UNCHANGED <<users, userSerial, admins, consultations, contactInquiries,
                 issued, signedAt, inflight, mem, spent, superseded>>

(* --------------------------- middlewares ----------------------------- *)
Deny(status, message) == [pass |-> FALSE, resp |-> Resp(status, FALSE, message), who |-> NoRow]
Allow(row) == [pass |-> TRUE, resp |-> NoResp, who |-> row]

\* authenticateJWT: the bearer token verifies and its userId is a row of users
authenticateJWT(hdr) ==
  IF ~IsBearer(hdr) THEN Deny(401, "Missing or invalid Authorization header")
  ELSE IF ~JwtVerify(hdr.token, JwtSecret, now) THEN Deny(401, "Invalid or expired token")
  ELSE LET user == First(UsersById(Claim(hdr.token, "userId", NoId)), NoRow)
       IN  IF user = NoRow THEN Deny(401, "User not found") ELSE Allow(user)

\* authenticateAdminJWT, then requireAdmin (which finds req.admin set)
authenticateAdminJWT(hdr) ==
  IF ~IsBearer(hdr) THEN Deny(401, "Missing or invalid Authorization header")
  ELSE IF ~JwtVerify(hdr.token, JwtSecret, now) THEN Deny(401, "Invalid or expired token")
  ELSE IF ~Claim(hdr.token, "isAdmin", FALSE) THEN Deny(403, "Admin access required")
  ELSE LET admin == First(AdminsById(Claim(hdr.token, "adminId", NoId)), NoRow)
       IN  IF admin = NoRow THEN Deny(401, "Admin not found") ELSE Allow(admin)

\* variant: the token is decoded without being verified
OptionalUserIdUnverified(hdr) ==
  IF IsBearer(hdr) THEN Claim(hdr.token, "userId", NoId) ELSE NoId

\* the optional bearer of POST /api/consultation and /api/contact:
\* decoded.userId when the token verifies, else null; then userId || null
OptionalUserId(hdr) ==
  IF IsBearer(hdr) /\ JwtVerify(hdr.token, JwtSecret, now)
  THEN Claim(hdr.token, "userId", NoId)
  ELSE NoId

(* ------------------------ submission routes -------------------------- *)
\* `RGM-${Date.now()}`
GenerateBookingId(t) == <<"RGM", t>>

\* db.insert(consultations).values({...validatedData, bookingId, status, paymentStatus, userId})
NewConsultationRow(id, input, bookingId, userId) ==
  [id |-> id, name |-> input.name, email |-> input.email, phone |-> input.phone,
   eventType |-> input.eventType, eventDate |-> input.eventDate,
   location |-> input.location, budget |-> input.budget,
   details |-> IF input.details = Absent THEN Null ELSE input.details,
   status |-> "pending",
   adminComment |-> IF input.adminComment = Absent THEN Null ELSE input.adminComment,
   scheduledDateTime |-> Null, paymentStatus |-> "unpaid", paymentIntentId |-> Null,
   bookingId |-> bookingId, userId |-> userId]

\* POST /api/consultation; valid: the body parses; dbOk: the insert does not throw
PostConsultation(hdr, input, valid, dbOk) ==
  /\ Len(consultations) < MaxConsultations
  /\ req' = [op |-> "PostConsultation", valid |-> valid, dbOk |-> dbOk]
  /\ IF valid /\ dbOk
     THEN LET row == NewConsultationRow(Len(consultations) + 1, input,
                                        GenerateBookingId(now), OptionalUserId(hdr))
          IN  /\ consultations' = Append(consultations, row)
              /\ resp' = Resp(200, TRUE, "Consultation request submitted successfully")
                           @@ [bookingId |-> row.bookingId, consultation |-> row]
     ELSE /\ consultations' = consultations
          /\ resp' = Resp(400, FALSE, "Failed to submit consultation request")
  /\ UNCHANGED <<now, ticks, users, userSerial, admins, contactInquiries, issued, signedAt,
                 inflight, mem, spent, superseded>>

NewContactRow(id, input, userId) ==
  [id |-> id, name |-> input.name, email |-> input.email, subject |-> input.subject,
   message |-> input.message, status |-> "new",
   adminComment |-> IF input.adminComment = Absent THEN Null ELSE input.adminComment,
   userId |-> userId]

\* POST /api/contact
PostContact(hdr, input, valid, dbOk) ==
  /\ Len(contactInquiries) < MaxContacts
  /\ req' = [op |-> "PostContact", valid |-> valid, dbOk |-> dbOk]
  /\ IF valid /\ dbOk
     THEN LET row == NewContactRow(Len(contactInquiries) + 1, input, OptionalUserId(hdr))
          IN  /\ contactInquiries' = Append(contactInquiries, row)
              /\ resp' = Resp(200, TRUE, "Contact form submitted successfully")
                           @@ [contact |-> row]
     ELSE /\ contactInquiries' = contactInquiries
          /\ resp' = Resp(400, FALSE, "Failed to submit contact form")
  /\ UNCHANGED <<now, ticks, users, userSerial, admins, consultations, issued, signedAt,
                 inflight, mem, spent, superseded>>

(* --------------------------- admin routes ---------------------------- *)
\* const [updated] = await db.update(...).where(eq(table.id, id)).returning()
Returning(table, id) == First(SelectSeq(table, LAMBDA r : r.id = id), NoRow)
\* variant: the handler goes on without looking at what the update returned
NotUpdatedIgnored(updated) == FALSE
\* if (!updated)
NotUpdated(updated) == updated = NoRow

\* GET /api/admin/consultations
AdminGetConsultations(hdr) ==
  /\ req' = [op |-> "AdminGetConsultations"]
  /\ LET gate == authenticateAdminJWT(hdr)
     IN  resp' = IF gate.pass
                 THEN Resp(200, TRUE, "") @@ [consultations |-> consultations]
                 ELSE gate.resp
  /\ UNCHANGED <<now, ticks, users, userSerial, admins, consultations,
                 contactInquiries, issued, signedAt, inflight, mem, spent, superseded>>

\* GET /api/admin/contacts
AdminGetContacts(hdr) ==
  /\ req' = [op |-> "AdminGetContacts"]
  /\ LET gate == authenticateAdminJWT(hdr)
     IN  resp' = IF gate.pass
                 THEN Resp(200, TRUE, "") @@ [contacts |-> contactInquiries]
                 ELSE gate.resp
  /\ UNCHANGED <<now, ticks, users, userSerial, admins, consultations,
                 contactInquiries, issued, signedAt, inflight, mem, spent, superseded>>

\* variant: fields the body leaves out are left as they are
AdminConsultationSetSparse(body) ==
  Defined([status |-> body.status, scheduledDateTime |-> body.scheduledDateTime,
           adminComment |-> body.adminComment])

\* variant: adminComment is taken when it is truthy
AdminConsultationSetTruthyComment(body) ==
  Defined([status |-> IF Truthy(body.status) THEN body.status ELSE "pending",
           scheduledDateTime |->
             IF Truthy(body.scheduledDateTime) THEN body.scheduledDateTime ELSE Null,
           adminComment |-> IF Truthy(body.adminComment) THEN body.adminComment ELSE Absent])

\* .set({status: status || "pending", scheduledDateTime: scheduledDateTime || null,
\*       adminComment: adminComment !== undefined ? adminComment : undefined})
AdminConsultationSet(body) ==
  Defined([status |-> IF Truthy(body.status) THEN body.status ELSE "pending",
           scheduledDateTime |->
             IF Truthy(body.scheduledDateTime) THEN body.scheduledDateTime ELSE Null,
           adminComment |-> body.adminComment])

\* PATCH /api/admin/consultations/:id
AdminPatchConsultation(hdr, id, body) ==
  /\ req' = [op |-> "AdminPatchConsultation", id |-> id,
             was |-> First(ConsultationsById(id), [status |-> Absent]).status]
  /\ LET gate == authenticateAdminJWT(hdr)
         updated == UpdateById(consultations, id, AdminConsultationSet(body))
     IN  IF ~gate.pass
         THEN resp' = gate.resp /\ consultations' = consultations
         ELSE /\ consultations' = updated
              /\ resp' = IF NotUpdated(Returning(updated, id))
                         THEN Resp(404, FALSE, "Consultation not found")
                         ELSE Resp(200, TRUE, "Consultation updated successfully")
                                @@ [consultation |-> Returning(updated, id)]
  /\ UNCHANGED <<now, ticks, users, userSerial, admins, contactInquiries, issued, signedAt,
                 inflight, mem, spent, superseded>>

\* variant: a status the body leaves out is left as it is
AdminContactSetSparse(body) ==
  Defined([status |-> body.status, adminComment |-> body.adminComment])

\* .set({status: status || "new", adminComment: ...})
AdminContactSet(body) ==
  Defined([status |-> IF Truthy(body.status) THEN body.status ELSE "new",
           adminComment |-> body.adminComment])

\* PATCH /api/admin/contacts/:id
AdminPatchContact(hdr, id, body) ==
  /\ req' = [op |-> "AdminPatchContact", id |-> id,
             was |-> First(ContactsById(id), [status |-> Absent]).status]
  /\ LET gate == authenticateAdminJWT(hdr)
         updated == UpdateById(contactInquiries, id, AdminContactSet(body))
     IN  IF ~gate.pass
         THEN resp' = gate.resp /\ contactInquiries' = contactInquiries
         ELSE /\ contactInquiries' = updated
              /\ resp' = IF NotUpdated(Returning(updated, id))
                         THEN Resp(404, FALSE, "Contact inquiry not found")
                         ELSE Resp(200, TRUE, "Contact inquiry updated successfully")
                                @@ [contact |-> Returning(updated, id)]
  /\ UNCHANGED <<now, ticks, users, userSerial, admins, consultations, issued, signedAt,
                 inflight, mem, spent, superseded>>

(* --------------------------- owner routes ---------------------------- *)
FreeSlot(s) == inflight[s] = Idle /\ \A r \in Slots : r < s => inflight[r] # Idle
Park(s, locals) == inflight' = [inflight EXCEPT ![s] = locals]
Release(s) == inflight' = [inflight EXCEPT ![s] = Idle]

\* variant: only the existence of the record is tested
NotOwnerUnchecked(consultation, user) == consultation = NoRow
\* !consultation || consultation.userId !== user.id
NotOwner(consultation, user) == consultation = NoRow \/ consultation.userId # user.id

\* variant: the whole body is the set clause
OwnerSetWholeBody(body) == Defined(body)

\* .set({eventType, eventDate, location, budget, details})
OwnerSet(body) ==
  Defined([eventType |-> body.eventType, eventDate |-> body.eventDate,
           location |-> body.location, budget |-> body.budget, details |-> body.details])

\* PATCH /api/my/consultations/:id, up to the await of the select
OwnerPatchRead(s, hdr, id, body) ==
  /\ FreeSlot(s)
  /\ LET gate == authenticateJWT(hdr)
         consultation == First(ConsultationsById(id), NoRow)
     IN  /\ req' = [op |-> "OwnerPatchRead", id |-> id]
         /\ IF ~gate.pass
            THEN resp' = gate.resp /\ inflight' = inflight
            ELSE IF NotOwner(consultation, gate.who)
            THEN /\ resp' = Resp(403, FALSE, "Not authorized to update this consultation")
                 /\ inflight' = inflight
            ELSE /\ resp' = NoResp
                 /\ Park(s, [op |-> "OwnerPatch", id |-> id, body |-> body,
                             user |-> gate.who.id])
  /\ UNCHANGED <<now, ticks, users, userSerial, admins, consultations,
                 contactInquiries, issued, signedAt, mem, spent, superseded>>

\* ... and its update; a set with no value at all makes the query builder throw
OwnerPatchWrite(s) ==
  /\ inflight[s].op = "OwnerPatch"
  /\ LET l == inflight[s]
         fields == OwnerSet(l.body)
         updated == UpdateById(consultations, l.id, fields)
     IN  /\ req' = [op |-> "OwnerPatchWrite", id |-> l.id]
         /\ IF DOMAIN fields = {}
            THEN /\ consultations' = consultations
                 /\ resp' = Resp(500, FALSE, "Failed to update consultation")
            ELSE /\ consultations' = updated
                 /\ resp' = Resp(200, TRUE, "")
                      @@ [consultation |-> First(SelectSeq(updated, LAMBDA c : c.id = l.id), NoRow)]
  /\ Release(s)
  /\ UNCHANGED <<now, ticks, users, userSerial, admins, contactInquiries, issued, signedAt,
                 mem, spent, superseded>>

\* GET /api/me
GetMe(hdr) ==
  /\ req' = [op |-> "GetMe", hdr |-> hdr]
  /\ LET gate == authenticateJWT(hdr)
     IN  resp' = IF gate.pass
                 THEN Resp(200, TRUE, "")
                        @@ [user |-> [id |-> gate.who.id, email |-> gate.who.email,
                                      role |-> gate.who.role]]
                 ELSE gate.resp
  /\ UNCHANGED <<now, ticks, users, userSerial, admins, consultations,
                 contactInquiries, issued, signedAt, inflight, mem, spent, superseded>>

(* ------------- the admin routes of the earlier registerRoutes --------- *)
\* GET /api/admin/consultations, registered without a middleware
LegacyAdminGetConsultations(hdr) ==
  /\ req' = [op |-> "LegacyAdminGetConsultations"]
  /\ resp' = Resp(200, TRUE, "") @@ [consultations |-> consultations]
  /\ UNCHANGED <<now, ticks, users, userSerial, admins, consultations,
                 contactInquiries, issued, signedAt, inflight, mem, spent, superseded>>

\* GET /api/admin/contacts, registered without a middleware
LegacyAdminGetContacts(hdr) ==
  /\ req' = [op |-> "LegacyAdminGetContacts"]
  /\ resp' = Resp(200, TRUE, "") @@ [contacts |-> contactInquiries]
  /\ UNCHANGED <<now, ticks, users, userSerial, admins, consultations,
                 contactInquiries, issued, signedAt, inflight, mem, spent, superseded>>

\* .set({status: status || "pending", scheduledDateTime: scheduledDateTime || null})
LegacyConsultationSet(body) ==
  [status |-> IF Truthy(body.status) THEN body.status ELSE "pending",
   scheduledDateTime |->
     IF Truthy(body.scheduledDateTime) THEN body.scheduledDateTime ELSE Null]

\* PATCH /api/admin/consultations/:id, registered without a middleware
LegacyAdminPatchConsultation(hdr, id, body) ==
  /\ req' = [op |-> "LegacyAdminPatchConsultation", id |-> id]
  /\ LET updated == UpdateById(consultations, id, LegacyConsultationSet(body))
     IN  /\ consultations' = updated
         /\ resp' = IF NotUpdated(Returning(updated, id))
                    THEN Resp(404, FALSE, "Consultation not found")
                    ELSE Resp(200, TRUE, "Consultation updated successfully")
                           @@ [consultation |-> Returning(updated, id)]
  /\ UNCHANGED <<now, ticks, users, userSerial, admins, contactInquiries, issued, signedAt,
                 inflight, mem, spent, superseded>>

\* .set({status: status || "new"})
LegacyContactSet(body) == [status |-> IF Truthy(body.status) THEN body.status ELSE "new"]

\* PATCH /api/admin/contacts/:id, registered without a middleware
LegacyAdminPatchContact(hdr, id, body) ==
  /\ req' = [op |-> "LegacyAdminPatchContact", id |-> id]
  /\ LET updated == UpdateById(contactInquiries, id, LegacyContactSet(body))
     IN  /\ contactInquiries' = updated
         /\ resp' = IF NotUpdated(Returning(updated, id))
                    THEN Resp(404, FALSE, "Contact inquiry not found")
                    ELSE Resp(200, TRUE, "Contact inquiry updated successfully")
                           @@ [contact |-> Returning(updated, id)]
  /\ UNCHANGED <<now, ticks, users, userSerial, admins, consultations, issued, signedAt,
                 inflight, mem, spent, superseded>>

(* --------------------------- account routes -------------------------- *)
\* db.insert(users).values({fullName, email, passwordHash})
NewUserRow(id, email, passwordHash) ==
  [id |-> id, email |-> email, passwordHash |-> passwordHash,
   passwordResetToken |-> Null, passwordResetExpires |-> NoTime, role |-> "user"]

Signups == {s \in Slots : inflight[s].op = "Signup"}

\* POST /api/signup, up to the await of the select; valid: fullName and email parse
SignupCheck(s, email, password, valid) ==
  /\ FreeSlot(s)
  /\ Len(users) + Cardinality(Signups) < MaxUsers
  /\ req' = [op |-> "SignupCheck", email |-> email]
  /\ IF ~valid
     THEN resp' = Resp(400, FALSE, "Invalid input") /\ inflight' = inflight
     ELSE IF ~Truthy(password) \/ Len(password) < MinPasswordLen
     THEN /\ resp' = Resp(400, FALSE, "Password must be at least 6 characters")
          /\ inflight' = inflight
     ELSE IF Len(UsersByEmail(email)) > 0
     THEN resp' = Resp(400, FALSE, "Email already registered") /\ inflight' = inflight
     ELSE /\ resp' = NoResp
          /\ Park(s, [op |-> "Signup", email |-> email, password |-> password])
  /\ UNCHANGED <<now, ticks, users, userSerial, admins, consultations,
                 contactInquiries, issued, signedAt, mem, spent, superseded>>

\* variant: the column email has no unique constraint
UniqueViolationNone(email) == FALSE
\* email: text("email").notNull().unique()
UniqueViolation(email) == Len(UsersByEmail(email)) > 0

\* ... and its insert: the serial is drawn, then users.email must be unique
SignupInsert(s) ==
  /\ inflight[s].op = "Signup"
  /\ LET l == inflight[s]
         id == userSerial + 1
     IN  /\ req' = [op |-> "SignupInsert", email |-> l.email]
         /\ userSerial' = id
         /\ IF UniqueViolation(l.email)
            THEN /\ users' = users
                 /\ resp' = Resp(500, FALSE, "Signup failed")
            ELSE /\ users' = Append(users, NewUserRow(id, l.email, BcryptHash(l.password)))
                 /\ resp' = Resp(200, TRUE, "Signup successful")
                              @@ [user |-> [id |-> id, email |-> l.email]]
  /\ Release(s)
  /\ UNCHANGED <<now, ticks, admins, consultations, contactInquiries, issued, signedAt, mem,
                 spent, superseded>>

\* POST /api/login
Login(email, password) ==
  /\ req' = [op |-> "Login", email |-> email]
  /\ LET user == First(UsersByEmail(email), NoRow)
         token == JwtSign([userId |-> user.id, email |-> user.email], JwtSecret, now)
     IN  IF ~Truthy(email) \/ ~Truthy(password)
         THEN /\ resp' = Resp(400, FALSE, "Email and password required")
              /\ UNCHANGED <<issued, signedAt>>
         ELSE IF user = NoRow \/ ~BcryptCompare(password, user.passwordHash)
         THEN resp' = Resp(401, FALSE, "Invalid credentials") /\ UNCHANGED <<issued, signedAt>>
         ELSE /\ Cardinality(issued \cup {token}) <= MaxIssued
              /\ issued' = issued \cup {token}
              /\ signedAt' = signedAt \cup {<<token, now>>}
              /\ resp' = Resp(200, TRUE, "")
                           @@ [token |-> token, user |-> [id |-> user.id, email |-> user.email]]
  /\ UNCHANGED <<now, ticks, users, userSerial, admins, consultations,
                 contactInquiries, inflight, mem, spent, superseded>>

ResetRequestMessage == "If that email exists, a reset link will be sent."
\* variant: an unknown address is reported
ResetRequestUnknownDisclosed == Resp(404, FALSE, "User not found")
\* if (!user) res.status(200).json({success: true, message})
ResetRequestUnknown == Resp(200, TRUE, ResetRequestMessage)
\* res.json({success: true, message}) after the update and the mail
ResetRequestSent == Resp(200, TRUE, ResetRequestMessage)

\* POST /api/password-reset-request, up to the await of the select
ResetRequestRead(s, email) ==
  /\ FreeSlot(s)
  /\ LET user == First(UsersByEmail(email), NoRow)
     IN  /\ req' = [op |-> "ResetRequestRead", email |-> email]
         /\ IF ~Truthy(email)
            THEN resp' = Resp(400, FALSE, "Email required") /\ inflight' = inflight
            ELSE IF user = NoRow
            THEN resp' = ResetRequestUnknown /\ inflight' = inflight
            ELSE /\ resp' = NoResp
                 /\ Park(s, [op |-> "ResetRequest", email |-> email, user |-> user.id])
  /\ UNCHANGED <<now, ticks, users, userSerial, admins, consultations,
                 contactInquiries, issued, signedAt, mem, spent, superseded>>

\* variant: a failure of the mail send reaches the outer catch
ResetRequestAnswerMailFatal(mailOk) ==
  IF mailOk THEN ResetRequestSent ELSE Resp(500, FALSE, "Password reset request failed")

\* try { await mg.messages.create(...) } catch (mailError) { console.error(...) }
\* followed by res.json: the mail error is logged and dropped
ResetRequestAnswer(mailOk) == ResetRequestSent

\* ... then the token (crypto.randomBytes(32)), the expiry, the update and the mail;
\* dbOk: the update does not throw; mailOk: mg.messages.create does not throw
ResetRequestWrite(s, token, dbOk, mailOk) ==
  /\ inflight[s].op = "ResetRequest"
  /\ LET l == inflight[s]
         expires == now + ResetTtlMs
     IN  /\ req' = [op |-> "ResetRequestWrite", email |-> l.email, dbOk |-> dbOk,
                    mailOk |-> dbOk /\ mailOk]
         /\ IF dbOk
            THEN /\ users' = UpdateById(users, l.user,
                        [passwordResetToken |-> token, passwordResetExpires |-> expires])
                 /\ spent' = {p \in spent : p[1] # l.user}
                 /\ LET old == First(UsersById(l.user), NoRow)
                        kept == {q \in superseded :
                                   q[1] # l.user \/ q[2] \notin {token, old.passwordResetToken}}
                    IN  superseded' =
                          IF /\ old # NoRow
                             /\ Truthy(old.passwordResetToken)
                             /\ old.passwordResetToken # token
                          THEN kept \cup
                                 {<<old.id, old.passwordResetToken, old.passwordResetExpires>>}
                          ELSE kept
                 /\ resp' = ResetRequestAnswer(mailOk)
            ELSE /\ users' = users
                 /\ spent' = spent
                 /\ superseded' = superseded
                 /\ resp' = Resp(500, FALSE, "Password reset request failed")
  /\ Release(s)
  /\ UNCHANGED <<now, ticks, userSerial, admins, consultations, contactInquiries,
                 issued, signedAt, mem>>

\* variant: only the expiry is tested
ResetTokenRejectedExpiryOnly(user, token, t) == user.passwordResetExpires < t

\* user.passwordResetToken !== token || new Date(user.passwordResetExpires) < new Date()
ResetTokenRejected(user, token, t) ==
  user.passwordResetToken # token \/ user.passwordResetExpires < t

\* POST /api/password-reset, up to the await of the select
PasswordResetRead(s, email, token, newPassword) ==
  /\ FreeSlot(s)
  /\ LET user == First(UsersByEmail(email), NoRow)
     IN  /\ req' = [op |-> "PasswordResetRead", email |-> email, token |-> token]
         /\ IF ~Truthy(email) \/ ~Truthy(token) \/ ~Truthy(newPassword)
            THEN resp' = Resp(400, FALSE, "Missing required fields") /\ inflight' = inflight
            ELSE IF user = NoRow
            THEN resp' = Resp(400, FALSE, "Invalid or expired token") /\ inflight' = inflight
            ELSE IF ~Truthy(user.passwordResetToken) \/ user.passwordResetExpires = NoTime
            THEN resp' = Resp(400, FALSE, "Invalid or expired token") /\ inflight' = inflight
            ELSE IF ResetTokenRejected(user, token, now)
            THEN resp' = Resp(400, FALSE, "Invalid or expired token") /\ inflight' = inflight
            ELSE /\ resp' = NoResp
                 /\ Park(s, [op |-> "PasswordReset", email |-> email, user |-> user.id,
                             token |-> token, newPassword |-> newPassword])
  /\ UNCHANGED <<now, ticks, users, userSerial, admins, consultations,
                 contactInquiries, issued, signedAt, mem, spent, superseded>>

\* variant: the update clears the token and its expiry and leaves the hash
PasswordResetSetKeepingHash(newPassword) ==
  [passwordResetToken |-> Null, passwordResetExpires |-> NoTime]

\* variant: the update clears the token and leaves its expiry
PasswordResetSetClearingToken(newPassword) ==
  [passwordHash |-> BcryptHash(newPassword), passwordResetToken |-> Null]

\* variant: the update stores the new hash and leaves the token and its expiry
PasswordResetSetKeepingToken(newPassword) == [passwordHash |-> BcryptHash(newPassword)]

\* .set({passwordHash, passwordResetToken: null, passwordResetExpires: null})
PasswordResetSet(newPassword) ==
  [passwordHash |-> BcryptHash(newPassword), passwordResetToken |-> Null,
   passwordResetExpires |-> NoTime]

\* ... and its update
PasswordResetWrite(s) ==
  /\ inflight[s].op = "PasswordReset"
  /\ LET l == inflight[s]
     IN  /\ req' = [op |-> "PasswordResetWrite", email |-> l.email, token |-> l.token]
         /\ users' = UpdateById(users, l.user, PasswordResetSet(l.newPassword))
         /\ spent' = spent \cup {<<l.user, l.token>>}
         /\ resp' = Resp(200, TRUE, "Password reset successful")
  /\ Release(s)
  /\ UNCHANGED <<now, ticks, userSerial, admins, consultations, contactInquiries,
                 issued, signedAt, mem, superseded>>

\* variant: the security code is not compared
AdminCredentialsRejectedNoCode(admin, password, securityCode) ==
  ~BcryptCompare(password, admin.passwordHash)

\* !valid || admin.securityCode !== securityCode
AdminCredentialsRejected(admin, password, securityCode) ==
  ~BcryptCompare(password, admin.passwordHash) \/ admin.securityCode # securityCode

\* POST /api/admin/login
AdminLogin(email, password, securityCode) ==
  /\ req' = [op |-> "AdminLogin"]
  /\ LET admin == First(AdminsByEmail(email), NoRow)
         token == JwtSign([adminId |-> admin.id, email |-> admin.email, isAdmin |-> TRUE],
                          JwtSecret, now)
     IN  IF ~Truthy(email) \/ ~Truthy(password) \/ ~Truthy(securityCode)
         THEN /\ resp' = Resp(400, FALSE, "Email, password, and security code are required")
              /\ UNCHANGED <<issued, signedAt>>
         ELSE IF admin = NoRow
         THEN resp' = Resp(401, FALSE, "Invalid credentials") /\ UNCHANGED <<issued, signedAt>>
         ELSE IF AdminCredentialsRejected(admin, password, securityCode)
         THEN /\ resp' = Resp(401, FALSE, "Invalid credentials or security code")
              /\ UNCHANGED <<issued, signedAt>>
         ELSE /\ Cardinality(issued \cup {token}) <= MaxIssued
              /\ issued' = issued \cup {token}
              /\ signedAt' = signedAt \cup {<<token, now>>}
              /\ resp' = Resp(200, TRUE, "")
                           @@ [token |-> token, admin |-> [id |-> admin.id, email |-> admin.email]]
  /\ UNCHANGED <<now, ticks, users, userSerial, admins, consultations,
                 contactInquiries, inflight, mem, spent, superseded>>

(* ------------------------------ storage ------------------------------ *)
Returned(value) == Resp(0, TRUE, "") @@ [value |-> value]
Thrown(message) == Resp(0, FALSE, message)

RECURSIVE DecimalDigits(_)
\* String(n)
DecimalDigits(n) == IF n < 10 THEN <<n>> ELSE Append(DecimalDigits(n \div 10), n % 10)
RECURSIVE PadStart(_, _, _)
\* digits.padStart(width, fill)
PadStart(digits, width, fill) ==
  IF Len(digits) >= width THEN digits ELSE PadStart(<<fill>> \o digits, width, fill)

\* `RE2024-${String(id).padStart(4, '0')}`
MemBookingId(id) == <<"RE2024", PadStart(DecimalDigits(id), 4, 0)>>

\* this.consultations.get(id)
MemGet(id) == First(SelectSeq(mem.consultations, LAMBDA c : c.id = id), NoRow)
\* variant: the key is deleted and set again, which moves it to the end
MemSetReinserted(id, updated) ==
  [mem EXCEPT !.consultations =
     Append(SelectSeq(@, LAMBDA c : c.id # id), updated)]
\* this.consultations.set(id, updated) of a key the map holds: its place is kept
MemSet(id, updated) ==
  [mem EXCEPT !.consultations =
     [i \in 1 .. Len(@) |-> IF @[i].id = id THEN updated ELSE @[i]]]

\* variant: the record is rebuilt without its generated booking id
SpreadRebuilt(row, fields) ==
  [f \in DOMAIN row |->
     IF f \in DOMAIN fields THEN fields[f]
     ELSE IF f = "bookingId" THEN NoBooking ELSE row[f]]

\* {...row, f: v, ...}
Spread(row, fields) == [f \in DOMAIN row |-> IF f \in DOMAIN fields THEN fields[f] ELSE row[f]]

\* MemStorage.createConsultation
MemCreateConsultation(input) ==
  /\ Len(mem.consultations) < MaxConsultations
  /\ LET id == mem.currentConsultationId
         row == [NewConsultationRow(id, input, MemBookingId(id), input.userId)
                   EXCEPT !.adminComment = input.adminComment]
     IN  /\ mem' = [mem EXCEPT !.currentConsultationId = id + 1,
                               !.consultations = Append(@, row)]
         /\ req' = [op |-> "MemCreateConsultation"]
         /\ resp' = Returned(row)
  /\ UNCHANGED <<now, ticks, users, userSerial, admins, consultations,
                 contactInquiries, issued, signedAt, inflight, spent, superseded>>

MemUpdate(op, id, fields) ==
  /\ req' = [op |-> op, id |-> id, args |-> fields]
  /\ LET consultation == MemGet(id)
         updated == Spread(consultation, fields)
     IN  IF consultation = NoRow
         THEN mem' = mem /\ resp' = Thrown("Consultation not found")
         ELSE mem' = MemSet(id, updated) /\ resp' = Returned(updated)
  /\ UNCHANGED <<now, ticks, users, userSerial, admins, consultations,
                 contactInquiries, issued, signedAt, inflight, spent, superseded>>

\* MemStorage.updateConsultationSchedule
MemUpdateConsultationSchedule(id, scheduledDateTime) ==
  MemUpdate("MemUpdateConsultationSchedule", id,
            [scheduledDateTime |-> scheduledDateTime, status |-> "scheduled"])

\* MemStorage.updateConsultationPayment
MemUpdateConsultationPayment(id, paymentIntentId, paymentStatus) ==
  MemUpdate("MemUpdateConsultationPayment", id,
            [paymentIntentId |-> paymentIntentId, paymentStatus |-> paymentStatus])

\* MemStorage.updateConsultationStatus
MemUpdateConsultationStatus(id, status) ==
  MemUpdate("MemUpdateConsultationStatus", id, [status |-> status])

\* db.update(consultations).set(fields).where(eq(consultations.id, id)).returning()
DbUpdate(op, id, fields) ==
  /\ req' = [op |-> op, id |-> id, args |-> fields]
  /\ LET updated == UpdateById(consultations, id, fields)
     IN  /\ consultations' = updated
         /\ resp' = Returned(First(SelectSeq(updated, LAMBDA c : c.id = id), NoRow))
  /\ UNCHANGED <<now, ticks, users, userSerial, admins, contactInquiries, issued, signedAt,
                 inflight, mem, spent, superseded>>

\* DatabaseStorage.updateConsultationSchedule
DbUpdateConsultationSchedule(id, scheduledDateTime) ==
  DbUpdate("DbUpdateConsultationSchedule", id, [scheduledDateTime |-> scheduledDateTime])

\* DatabaseStorage.updateConsultationPayment
DbUpdateConsultationPayment(id, paymentIntentId, paymentStatus) ==
  DbUpdate("DbUpdateConsultationPayment", id,
           [paymentIntentId |-> paymentIntentId, paymentStatus |-> paymentStatus])

\* DatabaseStorage.updateConsultationStatus
DbUpdateConsultationStatus(id, status) ==
  DbUpdate("DbUpdateConsultationStatus", id, [status |-> status])

\* MemStorage.createUser
MemCreateUser(insertUser) ==
  /\ Len(mem.users) < MaxMemRecords
  /\ LET id == mem.currentUserId
         user == [id |-> id, username |-> insertUser.username,
                  password |-> insertUser.password]
     IN  /\ mem' = [mem EXCEPT !.currentUserId = id + 1, !.users = Append(@, user)]
         /\ req' = [op |-> "MemCreateUser"]
         /\ resp' = Returned(user)
  /\ UNCHANGED <<now, ticks, users, userSerial, admins, consultations,
                 contactInquiries, issued, signedAt, inflight, spent, superseded>>

\* MemStorage.getConsultation
MemGetConsultation(id) ==
  /\ req' = [op |-> "MemGetConsultation", id |-> id]
  /\ resp' = Returned(MemGet(id))
  /\ UNCHANGED <<now, ticks, users, userSerial, admins, consultations,
                 contactInquiries, issued, signedAt, inflight, mem, spent, superseded>>

\* MemStorage.getAllConsultations: Array.from(this.consultations.values())
MemGetAllConsultations ==
  /\ req' = [op |-> "MemGetAllConsultations"]
  /\ resp' = Returned(mem.consultations)
  /\ UNCHANGED <<now, ticks, users, userSerial, admins, consultations,
                 contactInquiries, issued, signedAt, inflight, mem, spent, superseded>>

\* MemStorage.createContactInquiry
MemCreateContactInquiry(input) ==
  /\ Len(mem.contactInquiries) < MaxMemRecords
  /\ LET id == mem.currentContactId
         inquiry == [NewContactRow(id, input, input.userId)
                       EXCEPT !.adminComment = input.adminComment]
     IN  /\ mem' = [mem EXCEPT !.currentContactId = id + 1,
                               !.contactInquiries = Append(@, inquiry)]
         /\ req' = [op |-> "MemCreateContactInquiry"]
         /\ resp' = Returned(inquiry)
  /\ UNCHANGED <<now, ticks, users, userSerial, admins, consultations,
                 contactInquiries, issued, signedAt, inflight, spent, superseded>>

\* MemStorage.getAllContactInquiries
MemGetAllContactInquiries ==
  /\ req' = [op |-> "MemGetAllContactInquiries"]
  /\ resp' = Returned(mem.contactInquiries)
  /\ UNCHANGED <<now, ticks, users, userSerial, admins, consultations,
                 contactInquiries, issued, signedAt, inflight, mem, spent, superseded>>

\* DatabaseStorage.createConsultation: the columns the insert schema omits take
\* their defaults (status 'pending', paymentStatus 'unpaid', the others null)
DbCreateConsultation(input) ==
  /\ Len(consultations) < MaxConsultations
  /\ LET row == NewConsultationRow(Len(consultations) + 1, input, NoBooking,
                   IF input.userId = Absent THEN NoId ELSE input.userId)
     IN  /\ consultations' = Append(consultations, row)
         /\ req' = [op |-> "DbCreateConsultation"]
         /\ resp' = Returned(row)
  /\ UNCHANGED <<now, ticks, users, userSerial, admins, contactInquiries, issued, signedAt,
                 inflight, mem, spent, superseded>>

\* DatabaseStorage.getConsultation
DbGetConsultation(id) ==
  /\ req' = [op |-> "DbGetConsultation", id |-> id]
  /\ resp' = Returned(First(ConsultationsById(id), NoRow))
  /\ UNCHANGED <<now, ticks, users, userSerial, admins, consultations,
                 contactInquiries, issued, signedAt, inflight, mem, spent, superseded>>

\* DatabaseStorage.getAllConsultations
DbGetAllConsultations ==
  /\ req' = [op |-> "DbGetAllConsultations"]
  /\ resp' = Returned(consultations)
  /\ UNCHANGED <<now, ticks, users, userSerial, admins, consultations,
                 contactInquiries, issued, signedAt, inflight, mem, spent, superseded>>

(* ------------------------------ inputs ------------------------------- *)
Emails == {"a@x.com", "b@x.com"}
Passwords == {"secret1", "secret2"}
ResetTokens == {"9f3c", "71aa"}
\* a validly shaped admin token signed with another key
ForgedToken ==
  JwtSign([adminId |-> 1, email |-> "admin@x.com", isAdmin |-> TRUE], "guess", now)
Headers == {NoHeader, BasicHeader} \cup {Bearer(t) : t \in issued \cup {ForgedToken}}

ConsultationInput ==
  [name |-> "Asha", email |-> "asha@x.com", phone |-> "555", eventType |-> "wedding",
   eventDate |-> "2030-06-01", location |-> "Goa", budget |-> "10k", details |-> Absent,
   adminComment |-> Absent, userId |-> Absent]
ContactInput ==
  [name |-> "Asha", email |-> "asha@x.com", subject |-> "hello", message |-> "hi",
   adminComment |-> Absent, userId |-> Absent]

AdminBodies ==
  { [status |-> Absent, scheduledDateTime |-> Absent, adminComment |-> Absent],
    [status |-> "completed", scheduledDateTime |-> Absent, adminComment |-> Absent],
    [status |-> "completed", scheduledDateTime |-> "2030-05-01T10:00", adminComment |-> Absent],
    [status |-> Absent, scheduledDateTime |-> Absent, adminComment |-> "call back"] }
ContactBodies ==
  { [status |-> Absent, adminComment |-> Absent],
    [status |-> "replied", adminComment |-> Absent],
    [status |-> Absent, adminComment |-> "done"] }
OwnerBodies ==
  { [eventType |-> "gala", eventDate |-> "2030-07-01", location |-> "Pune",
     budget |-> "20k", details |-> "outdoor"],
    [eventType |-> Absent, eventDate |-> Absent, location |-> Absent,
     budget |-> Absent, details |-> "vegan", status |-> "confirmed",
     paymentStatus |-> "paid"],
    [eventType |-> Absent, eventDate |-> Absent, location |-> Absent,
     budget |-> Absent, details |-> Absent] }
ConsultationIds == 1 .. MaxConsultations + 1
ContactIds == 1 .. MaxContacts + 1

(* -------------------------- specifications --------------------------- *)
\* A database in use: two customers have signed up (SignupCheck, SignupInsert)
\* and logged in (Login), the administrator has logged in (AdminLogin), all at
\* time 0; every such state is reachable from Init, and the tables persist.
SeedUsers ==
  << NewUserRow(1, "a@x.com", BcryptHash("secret1")),
     NewUserRow(2, "b@x.com", BcryptHash("secret1")) >>
UserToken(id, email) == JwtSign([userId |-> id, email |-> email], JwtSecret, 0)
AdminToken ==
  JwtSign([adminId |-> SeedAdmin.id, email |-> SeedAdmin.email, isAdmin |-> TRUE],
          JwtSecret, 0)
InitSeeded ==
  /\ now = 0
  /\ ticks = 0
  /\ users = SeedUsers
  /\ userSerial = Len(SeedUsers)
  /\ admins = <<SeedAdmin>>
  /\ consultations = <<>>
  /\ contactInquiries = <<>>
  /\ issued = {UserToken(1, "a@x.com"), UserToken(2, "b@x.com"), AdminToken}
  /\ signedAt = {<<t, 0>> : t \in {UserToken(1, "a@x.com"), UserToken(2, "b@x.com"), AdminToken}}
  /\ inflight = [s \in Slots |-> Idle]
  /\ mem = MemStorageNew
  /\ spent = {}
  /\ superseded = {}
  /\ req = [op |-> "init"]
  /\ resp = NoResp

\* customers submit consultations and edit their own
NextOwner ==
  \/ \E h \in Headers : PostConsultation(h, ConsultationInput, TRUE, TRUE)
  \/ \E s \in Slots, h \in Headers, id \in ConsultationIds, b \in OwnerBodies :
       OwnerPatchRead(s, h, id, b)
  \/ \E s \in Slots : OwnerPatchWrite(s)
SpecOwner == InitSeeded /\ [][NextOwner]_vars

\* submissions, millisecond by millisecond
NextBooking ==
  \/ Tick(1)
  \/ \E s \in Slots : SignupCheck(s, "a@x.com", "secret1", TRUE)
  \/ \E s \in Slots : SignupInsert(s)
  \/ Login("a@x.com", "secret1")
  \/ \E h \in Headers, valid \in BOOLEAN, dbOk \in BOOLEAN :
       PostConsultation(h, ConsultationInput, valid, dbOk)
  \/ \E h \in Headers, valid \in BOOLEAN, dbOk \in BOOLEAN :
       PostContact(h, ContactInput, valid, dbOk)
SpecBooking == Init /\ [][NextBooking]_vars

\* administrators (and everyone else) on the admin routes, both registrations
\* no header, a wrong scheme, a forged token, a user's token, the administrator's token
AdminCallers ==
  {NoHeader, BasicHeader, Bearer(ForgedToken), Bearer(UserToken(1, "a@x.com")),
   Bearer(AdminToken)}

NextAdmin ==
  \/ Tick(JwtTtlSec * 1000)
  \/ PostConsultation(NoHeader, ConsultationInput, TRUE, TRUE)
  \/ PostContact(NoHeader, ContactInput, TRUE, TRUE)
  \/ \E h \in AdminCallers : AdminGetConsultations(h)
  \/ \E h \in AdminCallers : AdminGetContacts(h)
  \/ \E h \in AdminCallers, id \in ConsultationIds, b \in AdminBodies :
       AdminPatchConsultation(h, id, b)
  \/ \E h \in AdminCallers, id \in ContactIds, b \in ContactBodies :
       AdminPatchContact(h, id, b)
  \/ LegacyAdminGetConsultations(NoHeader)
  \/ LegacyAdminGetContacts(NoHeader)
  \/ \E id \in ConsultationIds, b \in AdminBodies :
       LegacyAdminPatchConsultation(NoHeader, id, b)
  \/ \E id \in ContactIds, b \in ContactBodies : LegacyAdminPatchContact(NoHeader, id, b)
SpecAdmin == InitSeeded /\ [][NextAdmin]_vars

AdminLoginEmails == {"", "admin@x.com", "root@x.com"}
AdminLoginPasswords == {"", "adminpw", "letmein"}
AdminLoginCodes == {"", "4711", "0000"}

\* the administrator's login, and what its token opens
NextAdminLogin ==
  \/ \E d \in {1000, JwtTtlSec * 1000} : Tick(d)
  \/ \E e \in AdminLoginEmails, p \in AdminLoginPasswords, c \in AdminLoginCodes :
       AdminLogin(e, p, c)
  \/ PostConsultation(NoHeader, ConsultationInput, TRUE, TRUE)
  \/ \E h \in Headers : AdminGetConsultations(h)
SpecAdminLogin == Init /\ [][NextAdminLogin]_vars

\* one customer's password resets
NextReset ==
  \/ \E d \in {1, ResetTtlMs} : Tick(d)
  \/ \E s \in Slots : SignupCheck(s, "a@x.com", "secret1", TRUE)
  \/ \E s \in Slots : SignupInsert(s)
  \/ \E s \in Slots, e \in Emails \cup {""} : ResetRequestRead(s, e)
  \/ \E s \in Slots, t \in ResetTokens, dbOk \in BOOLEAN, mailOk \in BOOLEAN :
       ResetRequestWrite(s, t, dbOk, mailOk)
  \/ \E s \in Slots, e \in Emails, t \in ResetTokens \cup {""}, p \in Passwords :
       PasswordResetRead(s, e, t, p)
  \/ \E s \in Slots : PasswordResetWrite(s)
SpecReset == Init /\ [][NextReset]_vars

\* every way a consultation is written: the routes and both repositories
ImmutableBodies ==
  { [status |-> Absent, scheduledDateTime |-> Absent, adminComment |-> Absent],
    [status |-> "completed", scheduledDateTime |-> "2030-05-01T10:00",
     adminComment |-> Absent] }

NextImmutable ==
  \/ PostConsultation(Bearer(UserToken(1, "a@x.com")), ConsultationInput, TRUE, TRUE)
  \/ \E id \in {1, MaxConsultations + 1}, b \in ImmutableBodies :
       AdminPatchConsultation(Bearer(AdminToken), id, b)
  \/ \E id \in {1, MaxConsultations + 1} :
       LegacyAdminPatchConsultation(NoHeader, id,
         [status |-> Absent, scheduledDateTime |-> Absent, adminComment |-> Absent])
  \/ \E s \in Slots, id \in {1, MaxConsultations + 1} :
       OwnerPatchRead(s, Bearer(UserToken(1, "a@x.com")), id,
         [eventType |-> "gala", eventDate |-> "2030-07-01", location |-> "Pune",
          budget |-> "20k", details |-> "outdoor"])
  \/ \E s \in Slots : OwnerPatchWrite(s)
  \/ \E id \in {1, MaxConsultations + 1} : DbUpdateConsultationSchedule(id, "2030-05-01T10:00")
  \/ \E id \in {1, MaxConsultations + 1} : DbUpdateConsultationPayment(id, "pi_1", "paid")
  \/ \E id \in {1, MaxConsultations + 1} : DbUpdateConsultationStatus(id, "confirmed")
  \/ MemCreateConsultation(ConsultationInput)
  \/ \E id \in {1, MaxConsultations + 1} : MemUpdateConsultationSchedule(id, "2030-05-01T10:00")
  \/ \E id \in {1, MaxConsultations + 1} : MemUpdateConsultationPayment(id, "pi_1", "paid")
  \/ \E id \in {1, MaxConsultations + 1} : MemUpdateConsultationStatus(id, "confirmed")
SpecImmutable == InitSeeded /\ [][NextImmutable]_vars

(* ============================ properties ============================= *)
\* A property about a route is stated over the steps of its action, for every
\* input of the action; the test of req' in front names the same steps, and
\* the id of a step is the one req' holds.
\* what the properties say about a caller, apart from the middlewares
Unexpired(token) == token.exp > now \div 1000
\* the header carries a token a login handed out that is still in its lifetime
HoldsToken(hdr) == IsBearer(hdr) /\ hdr.token \in issued /\ Unexpired(hdr.token)
HoldsAdminToken(hdr) == HoldsToken(hdr) /\ "adminId" \in DOMAIN hdr.token
HoldsUserToken(hdr) == HoldsToken(hdr) /\ "userId" \in DOMAIN hdr.token
Exists(id) == \E i \in 1 .. Len(consultations) : consultations[i].id = id
Row(id) == First(ConsultationsById(id), NoRow)
AllTablesUnchanged ==
  UNCHANGED <<users, admins, consultations, contactInquiries, inflight, mem>>

(* ------------------------------- C1 ---------------------------------- *)
\* C1: no two consultation records ever share a bookingId, also when two
\* submissions are handled in the same millisecond.
C1_BookingIdsDistinct ==
  \A i, j \in 1 .. Len(consultations) :
    i # j => consultations[i].bookingId # consultations[j].bookingId

(* ------------------------------- C2 ---------------------------------- *)
\* C2: once a reset token has carried a successful password reset, a later
\* reset with the same token is rejected with "Invalid or expired token" and
\* changes nothing, until a new reset request is stored for that user.
C2_ResetTokenSingleUse ==
  [][req'.op = "PasswordResetRead" =>
     \A s \in Slots, e \in Emails, t \in ResetTokens, p \in Passwords :
       (/\ \E i \in 1 .. Len(users) : users[i].email = e /\ <<users[i].id, t>> \in spent
        /\ PasswordResetRead(s, e, t, p))
       => /\ resp' = Resp(400, FALSE, "Invalid or expired token")
          /\ AllTablesUnchanged]_vars
\* a spent token has been presented again and was turned down
C2_Witness ==
  /\ req.op = "PasswordResetRead"
  /\ resp.status = 400
  /\ \E i \in 1 .. Len(users) :
       users[i].email = req.email /\ <<users[i].id, req.token>> \in spent

(* ------------------------------- C3 ---------------------------------- *)
\* C3: an owner update by an authenticated user on an existing consultation
\* whose userId is not the caller's is answered 403 and changes no record.
C3_OwnerPatchForbidden ==
  [][req'.op = "OwnerPatchRead" =>
     \A s \in Slots, h \in Headers, id \in {req'.id}, b \in OwnerBodies :
       (/\ HoldsUserToken(h)
        /\ Exists(id)
        /\ Row(id).userId # h.token.userId
        /\ OwnerPatchRead(s, h, id, b))
       => /\ resp'.status = 403
          /\ AllTablesUnchanged]_vars
\* a user has been refused on a record that exists and belongs to another user
C3_Witness ==
  /\ req.op = "OwnerPatchRead"
  /\ resp.status = 403
  /\ Exists(req.id)
  /\ Row(req.id).userId # NoId

C4_WitnessUnknown ==
  /\ req.op = "ResetRequestRead"
  /\ Truthy(req.email)
  /\ UsersByEmail(req.email) = <<>>
  /\ resp.status = 200

(* ------------------------------- C5 ---------------------------------- *)
AdminRouteOps ==
  {"AdminGetConsultations", "AdminGetContacts", "AdminPatchConsultation",
   "AdminPatchContact", "LegacyAdminGetConsultations", "LegacyAdminGetContacts",
   "LegacyAdminPatchConsultation", "LegacyAdminPatchContact"}
\* some registration of an admin route handles the request
AdminRouteStep(hdr) ==
  \/ AdminGetConsultations(hdr) \/ LegacyAdminGetConsultations(hdr)
  \/ AdminGetContacts(hdr) \/ LegacyAdminGetContacts(hdr)
  \/ \E id \in ConsultationIds, b \in AdminBodies :
       AdminPatchConsultation(hdr, id, b) \/ LegacyAdminPatchConsultation(hdr, id, b)
  \/ \E id \in ContactIds, b \in ContactBodies :
       AdminPatchContact(hdr, id, b) \/ LegacyAdminPatchContact(hdr, id, b)
\* C5: an admin route answers a caller without a valid admin token with 401
\* (token missing or invalid) or 403 (a valid token that is not an admin's),
\* reads out no record and modifies none.
C5_AdminRoutesGuarded ==
  [][req'.op \in AdminRouteOps =>
     \A h \in AdminCallers :
       (~HoldsAdminToken(h) /\ AdminRouteStep(h))
       => /\ resp'.status = IF HoldsToken(h) THEN 403 ELSE 401
          /\ "consultations" \notin DOMAIN resp'
          /\ "contacts" \notin DOMAIN resp'
          /\ AllTablesUnchanged]_vars

(* ------------------------------- C6 ---------------------------------- *)
\* the three conditions of the administrator's login
AdminLoginHolds(email, password, securityCode) ==
  \E i \in 1 .. Len(admins) :
    /\ admins[i].email = email
    /\ admins[i].passwordHash = BcryptHash(password)
    /\ admins[i].securityCode = securityCode
\* C6 as stated: a login for which one of the three conditions fails issues
\* no token and is answered 401.
C6_AnyFailureIs401 ==
  [][req'.op = "AdminLogin" =>
     \A e \in AdminLoginEmails, p \in AdminLoginPasswords, c \in AdminLoginCodes :
       (~AdminLoginHolds(e, p, c) /\ AdminLogin(e, p, c))
       => /\ resp'.status = 401
          /\ issued' = issued]_vars
\* C6: the login issues a token exactly when the email names an admin, the
\* password verifies and the security code is equal to the stored one; a
\* failed login issues none and is answered 401 when the three fields are
\* all non-empty, 400 when one of them is missing or empty.
C6_AdminLoginThreeFactors ==
  [][req'.op = "AdminLogin" =>
     \A e \in AdminLoginEmails, p \in AdminLoginPasswords, c \in AdminLoginCodes :
       AdminLogin(e, p, c)
       => IF AdminLoginHolds(e, p, c)
          THEN /\ resp'.status = 200
               /\ resp'.token \in issued'
               /\ "adminId" \in DOMAIN resp'.token
               /\ resp'.token.exp > now' \div 1000
          ELSE /\ issued' = issued
               /\ "token" \notin DOMAIN resp'
               /\ resp'.status = IF "" \in {e, p, c} THEN 400 ELSE 401]_vars
\* a login with every field filled in has been refused
C6_Witness ==
  /\ req.op = "AdminLogin"
  /\ resp.status = 401
  /\ resp.message = "Invalid credentials or security code"

(* ------------------------------- C7 ---------------------------------- *)
\* C7: an admin update of a consultation whose body leaves status out sets
\* status to "pending", and one that leaves scheduledDateTime out sets it to
\* null, whatever the record held before.
C7_AdminPatchDefaults ==
  [][req'.op \in {"AdminPatchConsultation", "LegacyAdminPatchConsultation"} =>
     \A id \in {req'.id}, b \in AdminBodies :
       (/\ Exists(id)
        /\ \/ \E h \in AdminCallers :
                HoldsAdminToken(h) /\ AdminPatchConsultation(h, id, b)
           \/ LegacyAdminPatchConsultation(NoHeader, id, b))
       => /\ resp'.status = 200
          /\ b.status = Absent => Row(id)'.status = "pending"
          /\ b.scheduledDateTime = Absent => Row(id)'.scheduledDateTime = Null]_vars
\* a completed consultation has been put back to pending by an admin update
C7_Witness ==
  /\ req.op = "AdminPatchConsultation"
  /\ resp.status = 200
  /\ req.was = "completed"
  /\ Row(req.id).status = "pending"
  /\ Row(req.id).scheduledDateTime = Null

(* ------------------------------- C8 ---------------------------------- *)
\* every record of the table keeps its place, its id and its bookingId, and
\* a record that is added has a bookingId
BookingIdsKept(table) ==
  /\ Len(table') >= Len(table)
  /\ \A i \in 1 .. Len(table) :
       table'[i].id = table[i].id /\ table'[i].bookingId = table[i].bookingId
  /\ \A i \in Len(table) + 1 .. Len(table') : table'[i].bookingId # NoBooking
OwnerFields == {"eventType", "eventDate", "location", "budget", "details"}
\* C9: a successful owner update changes, of the record it names, only
\* eventType, eventDate, location, budget and details, and changes no
\* other record.
C9_OwnerPatchFields ==
  [][(req'.op = "OwnerPatchWrite" /\ resp'.status = 200)
     => /\ Len(consultations') = Len(consultations)
        /\ \A i \in 1 .. Len(consultations) :
             IF consultations[i].id = req'.id
             THEN \A f \in DOMAIN consultations[i] \ OwnerFields :
                    consultations'[i][f] = consultations[i][f]
             ELSE consultations'[i] = consultations[i]
        /\ UNCHANGED <<users, admins, contactInquiries, mem>>]_vars
\* an owner update that carried a status and a paymentStatus has gone through
C9_Witness ==
  /\ req.op = "OwnerPatchWrite"
  /\ resp.status = 200
  /\ resp.consultation.details = "vegan"

(* ------------------------------- C10 --------------------------------- *)
\* C10: an owner update by an authenticated user for an id that no
\* consultation has is answered 404, not 403.
C10_OwnerPatchNotFound ==
  [][req'.op = "OwnerPatchRead" =>
     \A s \in Slots, h \in Headers, id \in {req'.id}, b \in OwnerBodies :
       (/\ HoldsUserToken(h)
        /\ ~Exists(id)
        /\ OwnerPatchRead(s, h, id, b))
       => resp'.status = 404]_vars

(* ------------------------------- C11 --------------------------------- *)
ContactExists(id) == \E i \in 1 .. Len(contactInquiries) : contactInquiries[i].id = id
\* C11: an admin update of a consultation or of a contact inquiry whose id
\* no record has is answered 404 and leaves every consultation and every
\* contact inquiry as it was.
C11_AdminPatchNotFound ==
  [][req'.op \in {"AdminPatchConsultation", "LegacyAdminPatchConsultation",
                  "AdminPatchContact", "LegacyAdminPatchContact"} =>
     \A id \in {req'.id} :
       (\/ /\ ~Exists(id)
           /\ \E b \in AdminBodies :
                \/ \E h \in AdminCallers :
                     HoldsAdminToken(h) /\ AdminPatchConsultation(h, id, b)
                \/ LegacyAdminPatchConsultation(NoHeader, id, b)
        \/ /\ ~ContactExists(id)
           /\ \E b \in ContactBodies :
                \/ \E h \in AdminCallers :
                     HoldsAdminToken(h) /\ AdminPatchContact(h, id, b)
                \/ LegacyAdminPatchContact(NoHeader, id, b))
       => /\ resp'.status = 404
          /\ UNCHANGED <<consultations, contactInquiries>>]_vars
\* an administrator has asked for a consultation that is not there, while
\* other records are stored
C11_Witness ==
  /\ req.op = "AdminPatchConsultation"
  /\ resp.status = 404
  /\ ~Exists(req.id)
  /\ Len(consultations) > 0
  /\ Len(contactInquiries) > 0

(* ------------------------------- C12 --------------------------------- *)
\* bodies without adminComment, with null, with the empty string, with a text
CommentValues == {Absent, Null, "", "call back"}
ConsultationCommentBodies ==
  [status : {Absent}, scheduledDateTime : {Absent}, adminComment : CommentValues]
    \cup {[status |-> "completed", scheduledDateTime |-> Absent, adminComment |-> Null]}
ContactCommentBodies == [status : {Absent, "replied"}, adminComment : CommentValues]
NextComment ==
  \/ PostConsultation(NoHeader, ConsultationInput, TRUE, TRUE)
  \/ PostContact(NoHeader, ContactInput, TRUE, TRUE)
  \/ \E id \in ConsultationIds, b \in ConsultationCommentBodies :
       AdminPatchConsultation(Bearer(AdminToken), id, b)
  \/ \E id \in ContactIds, b \in ContactCommentBodies :
       AdminPatchContact(Bearer(AdminToken), id, b)
SpecComment == InitSeeded /\ [][NextComment]_vars

ContactRow(id) == First(ContactsById(id), NoRow)
\* the comment after an update with this body
CommentAfter(before, body) ==
  IF body.adminComment = Absent THEN before ELSE body.adminComment
\* C12: an admin update leaves the stored adminComment as it is when the body
\* has no adminComment, and stores the body's value when it has one, null and
\* the empty string included.
C12_AdminCommentExplicit ==
  [][req'.op \in {"AdminPatchConsultation", "AdminPatchContact"} =>
     \A id \in {req'.id} :
       /\ \A b \in ConsultationCommentBodies :
            (Exists(id) /\ AdminPatchConsultation(Bearer(AdminToken), id, b))
            => Row(id)'.adminComment = CommentAfter(Row(id).adminComment, b)
       /\ \A b \in ContactCommentBodies :
            (ContactExists(id) /\ AdminPatchContact(Bearer(AdminToken), id, b))
            => ContactRow(id)'.adminComment = CommentAfter(ContactRow(id).adminComment, b)]_vars
\* the empty string is stored as the comment of a record that an earlier
\* update had completed
C12_Witness ==
  /\ req.op = "AdminPatchConsultation"
  /\ resp.status = 200
  /\ req.was = "completed"
  /\ Row(req.id).adminComment = ""

(* ------------------------------- C13 --------------------------------- *)
\* C13: an admin update of an existing contact inquiry whose body has no
\* status sets the status to "new", whatever it was before.
C13_ContactStatusDefault ==
  [][req'.op \in {"AdminPatchContact", "LegacyAdminPatchContact"} =>
     \A id \in {req'.id}, b \in {c \in ContactBodies : c.status = Absent} :
       (/\ ContactExists(id)
        /\ \/ \E h \in AdminCallers : HoldsAdminToken(h) /\ AdminPatchContact(h, id, b)
           \/ LegacyAdminPatchContact(NoHeader, id, b))
       => /\ resp'.status = 200
          /\ ContactRow(id)'.status = "new"]_vars
\* a replied inquiry has been put back to new by an admin update
C13_Witness ==
  /\ req.op = "AdminPatchContact"
  /\ resp.status = 200
  /\ req.was = "replied"
  /\ ContactRow(req.id).status = "new"

(* ------------------------------- C14 --------------------------------- *)
\* submissions by every kind of caller, before and after the tokens expire
NextSubmit ==
  \/ Tick(JwtTtlSec * 1000)
  \/ \E h \in Headers : PostConsultation(h, ConsultationInput, TRUE, TRUE)
  \/ MemCreateConsultation(ConsultationInput)
SpecSubmit == InitSeeded /\ [][NextSubmit]_vars

Last(table) == table[Len(table)]
StartsPending(row) ==
  row.status = "pending" /\ row.paymentStatus = "unpaid" /\ row.bookingId # NoBooking
\* C14: a submission that parses and is stored is accepted from any caller; the
\* consultation it creates is pending, unpaid and has a bookingId, and its
\* userId is the caller's when the caller holds a valid user token and null
\* otherwise. A consultation created by MemStorage starts the same way.
C14_ConsultationStarts ==
  [][/\ req'.op = "PostConsultation" =>
          \A h \in Headers :
            PostConsultation(h, ConsultationInput, TRUE, TRUE)
            => /\ resp'.status = 200
               /\ Len(consultations') = Len(consultations) + 1
               /\ resp'.consultation = Last(consultations')
               /\ StartsPending(Last(consultations'))
               /\ Last(consultations').userId =
                    IF HoldsUserToken(h) THEN h.token.userId ELSE NoId
     /\ req'.op = "MemCreateConsultation" =>
          /\ Len(mem.consultations') = Len(mem.consultations) + 1
          /\ StartsPending(Last(mem.consultations'))]_vars
\* a consultation of a user, a later anonymous one, and one in a MemStorage
C14_Witness ==
  /\ Len(consultations) = 2
  /\ consultations[1].userId = 2
  /\ consultations[2].userId = NoId
  /\ consultations[2].bookingId # consultations[1].bookingId
  /\ Len(mem.consultations) > 0

(* ------------------------------- C15 --------------------------------- *)
SignupPasswords == {"secret1", "short"}
LoginEmails == Emails \cup {""}
LoginPasswords == {"secret1", "wrong", ""}
\* customers sign up, two at a time, and log in
NextAccount ==
  \/ \E s \in Slots, e \in Emails, p \in SignupPasswords, valid \in BOOLEAN :
       SignupCheck(s, e, p, valid)
  \/ \E s \in Slots : SignupInsert(s)
  \/ \E e \in LoginEmails, p \in LoginPasswords : Login(e, p)
SpecAccount == Init /\ [][NextAccount]_vars

Registered(email) == \E i \in 1 .. Len(users) : users[i].email = email
EmailsDistinct ==
  \A i, j \in 1 .. Len(users) : i # j => users[i].email # users[j].email
PasswordOf(email, password) ==
  \E i \in 1 .. Len(users) :
    users[i].email = email /\ users[i].passwordHash = BcryptHash(password)
NoTokenIssued == issued' = issued /\ "token" \notin DOMAIN resp'
\* C16 as stated: a login is answered 200 with a token when the password is
\* the one of the user with that email, and 401 without a token for any other
\* password and for an email no user has.
C16_LoginOr401 ==
  [][req'.op = "Login" =>
     \A e \in LoginEmails, p \in LoginPasswords :
       Login(e, p)
       => IF PasswordOf(e, p)
          THEN resp'.status = 200 /\ resp'.token \in issued'
          ELSE resp'.status = 401 /\ NoTokenIssued]_vars
\* C16: a login with an email and a password that are not empty is answered
\* 200 with a token of that user when the password is the user's current
\* one, and 401 without a token when it is not or when no user has the email;
\* a login with an empty email or password is answered 400 without a token.
\* The first user of an empty store has id 1.
C16_LoginAfterSignup ==
  [][/\ req'.op = "Login" =>
          \A e \in LoginEmails, p \in LoginPasswords :
            Login(e, p)
            => IF "" \in {e, p}
               THEN resp'.status = 400 /\ NoTokenIssued
               ELSE IF PasswordOf(e, p)
               THEN /\ resp'.status = 200
                    /\ resp'.token \in issued'
                    /\ resp'.user.email = e
                    /\ resp'.token.userId = resp'.user.id
                    /\ \E i \in 1 .. Len(users) :
                         users[i].email = e /\ users[i].id = resp'.user.id
               ELSE resp'.status = 401 /\ NoTokenIssued
     /\ Len(users') > 0 => users'[1].id = 1]_vars
\* a registered user has been refused with a wrong password
C16_Witness ==
  /\ req.op = "Login"
  /\ resp.status = 401
  /\ Registered(req.email)
  /\ issued # {}

(* ------------------------------- C17 --------------------------------- *)
\* two customers and the administrator are registered; nobody has logged in
InitRegistered ==
  /\ now = 0
  /\ ticks = 0
  /\ users = SeedUsers
  /\ userSerial = Len(SeedUsers)
  /\ admins = <<SeedAdmin>>
  /\ consultations = <<>>
  /\ contactInquiries = <<>>
  /\ issued = {}
  /\ signedAt = {}
  /\ inflight = [s \in Slots |-> Idle]
  /\ mem = MemStorageNew
  /\ spent = {}
  /\ superseded = {}
  /\ req = [op |-> "init"]
  /\ resp = NoResp
\* half a second, or half a second less than the lifetime of a token
TokenTicks == {500, JwtTtlSec * 1000 - 500}
\* logins at any time, and the tokens presented at any later time
NextToken ==
  \/ \E d \in TokenTicks : Tick(d)
  \/ Login("a@x.com", "secret1")
  \/ AdminLogin("admin@x.com", "adminpw", "4711")
  \/ \E h \in Headers : GetMe(h)
  \/ \E h \in Headers : AdminGetConsultations(h)
SpecToken == InitRegistered /\ [][NextToken]_vars

\* the principal a user route finds is the one the token was made for
YieldsUser(token, r) ==
  r.status = 200 /\ r.user.id = token.userId /\ r.user.email = token.email
IsUserToken(token) == "userId" \in DOMAIN token
\* C17 as stated: a token of a login at time T is accepted, as the principal
\* it was made for, at every time before T + 7 days, and answered 401 at
\* every time after T + 7 days; a token signed with another key is answered
\* 401.
C17_SevenDays ==
  [][req'.op \in {"GetMe", "AdminGetConsultations"} =>
     /\ \A p \in signedAt :
          LET token == p[1]
              age == now - p[2]
          IN  /\ (IsUserToken(token) /\ GetMe(Bearer(token)))
                 => /\ age < JwtTtlSec * 1000 => YieldsUser(token, resp')
                    /\ age > JwtTtlSec * 1000 => resp'.status = 401
              /\ (~IsUserToken(token) /\ AdminGetConsultations(Bearer(token)))
                 => /\ age < JwtTtlSec * 1000 => resp'.status = 200
                    /\ age > JwtTtlSec * 1000 => resp'.status = 401
     /\ (GetMe(Bearer(ForgedToken)) \/ AdminGetConsultations(Bearer(ForgedToken)))
        => resp'.status = 401]_vars
\* C17: a token of a login at time T carries the whole second of T; it is
\* accepted, as the principal it was made for and by the middleware of its
\* kind, exactly while the whole second of the clock is before the whole
\* second of T plus 7 days, and answered 401 from then on, so at T + 7 days
\* and at every later time. A token signed with another key is answered 401.
C17_TokenLifetime ==
  [][req'.op \in {"GetMe", "AdminGetConsultations"} =>
     /\ \A p \in signedAt :
          LET token == p[1]
              alive == now \div 1000 < p[2] \div 1000 + JwtTtlSec
          IN  /\ GetMe(Bearer(token))
                 => IF alive /\ IsUserToken(token)
                    THEN YieldsUser(token, resp')
                    ELSE resp'.status = 401
              /\ AdminGetConsultations(Bearer(token))
                 => resp'.status = IF ~alive THEN 401
                                   ELSE IF IsUserToken(token) THEN 403 ELSE 200
              /\ now - p[2] >= JwtTtlSec * 1000 => ~alive
     /\ (GetMe(Bearer(ForgedToken)) \/ AdminGetConsultations(Bearer(ForgedToken)))
        => resp'.status = 401]_vars
\* a token of a login in the middle of a second has been turned down less
\* than 7 days after that login
C17_Witness ==
  /\ req.op = "GetMe"
  /\ resp.status = 401
  /\ IsBearer(req.hdr)
  /\ \E p \in signedAt :
       /\ p[1] = req.hdr.token
       /\ p[2] % 1000 # 0
       /\ now - p[2] < JwtTtlSec * 1000
  /\ \A p \in signedAt : p[1] = req.hdr.token => p[2] % 1000 # 0

\* C18: a password reset is accepted iff the supplied token equals the stored
\* token and the current time is strictly before the stored expiry; a reset
\* attempted at exactly the expiry instant, or later, is rejected.
C18_ResetAcceptedIff ==
  [][req'.op = "PasswordResetRead" =>
     \A s \in Slots, e \in {req'.email}, t \in {req'.token}, p \in Passwords :
       PasswordResetRead(s, e, t, p) /\ Truthy(e) /\ Truthy(t) /\ Truthy(p)
       => LET user == First(UsersByEmail(e), NoRow)
              valid == /\ user # NoRow
                       /\ Truthy(user.passwordResetToken)
                       /\ user.passwordResetToken = t
                       /\ now < user.passwordResetExpires
          IN  (inflight'[s].op = "PasswordReset") <=> valid]_vars

\* C19: when the mail send fails during POST /api/password-reset-request for
\* an existing user, the answer is still the success answer, and the token and
\* the expiry written before the send are stored and pass the reset's test.
C19_MailFailureSwallowed ==
  [][req'.op = "ResetRequestWrite" /\ req'.dbOk /\ ~req'.mailOk =>
     /\ resp' = Resp(200, TRUE, ResetRequestMessage)
     /\ \A s \in Slots, t \in ResetTokens :
          ResetRequestWrite(s, t, TRUE, FALSE)
          => LET id == inflight[s].user
                 row == First(SelectSeq(users', LAMBDA u : u.id = id), NoRow)
             IN  /\ row # NoRow
                 /\ row.passwordResetToken = t
                 /\ row.passwordResetExpires = now + ResetTtlMs
                 /\ ~ResetTokenRejected(row, t, now')]_vars
\* the mail of a request failed, the request was answered 200, and the user
\* holds a reset token that has not expired
C19_Witness ==
  /\ req.op = "ResetRequestWrite"
  /\ req.dbOk /\ ~req.mailOk
  /\ resp.status = 200 /\ resp.success
  /\ \E i \in 1..Len(users) :
       /\ users[i].email = req.email
       /\ Truthy(users[i].passwordResetToken)
       /\ ~ResetTokenRejected(users[i], users[i].passwordResetToken, now)

\* C20: a store failure while inserting in POST /api/consultation or
\* POST /api/contact is answered 500, and 400 is answered only for malformed
\* or missing input.
C20_InsertFailureIs500 ==
  req.op \in {"PostConsultation", "PostContact"} =>
    /\ req.valid /\ ~req.dbOk => resp.status = 500
    /\ resp.status = 400 => ~req.valid

(* ------------------------------- C21 --------------------------------- *)
\* The two repositories side by side: every IStorage call is made on the
\* MemStorage instance and then, with the same arguments, on DatabaseStorage.
StorageStatuses == {"pending", "completed"}
MemCalls ==
  {"MemCreateConsultation", "MemGetConsultation", "MemGetAllConsultations",
   "MemUpdateConsultationSchedule", "MemUpdateConsultationPayment",
   "MemUpdateConsultationStatus"}
DbCalls ==
  {"DbCreateConsultation", "DbGetConsultation", "DbGetAllConsultations",
   "DbUpdateConsultationSchedule", "DbUpdateConsultationPayment",
   "DbUpdateConsultationStatus"}
MemTurn == req.op \notin MemCalls
NextStorage ==
  \/ MemTurn /\ MemCreateConsultation(ConsultationInput)
  \/ req.op = "MemCreateConsultation" /\ DbCreateConsultation(ConsultationInput)
  \/ MemTurn /\ \E id \in ConsultationIds : MemGetConsultation(id)
  \/ req.op = "MemGetConsultation" /\ DbGetConsultation(req.id)
  \/ MemTurn /\ MemGetAllConsultations
  \/ req.op = "MemGetAllConsultations" /\ DbGetAllConsultations
  \/ MemTurn /\ \E id \in ConsultationIds : MemUpdateConsultationSchedule(id, "2030-05-01T10:00")
  \/ /\ req.op = "MemUpdateConsultationSchedule"
     /\ DbUpdateConsultationSchedule(req.id, req.args.scheduledDateTime)
  \/ MemTurn /\ \E id \in ConsultationIds : MemUpdateConsultationPayment(id, "pi_1", "paid")
  \/ /\ req.op = "MemUpdateConsultationPayment"
     /\ DbUpdateConsultationPayment(req.id, req.args.paymentIntentId, req.args.paymentStatus)
  \/ MemTurn /\ \E id \in ConsultationIds, st \in StorageStatuses :
                  MemUpdateConsultationStatus(id, st)
  \/ /\ req.op = "MemUpdateConsultationStatus"
     /\ DbUpdateConsultationStatus(req.id, req.args.status)
SpecStorage == Init /\ [][NextStorage]_vars

\* the columns of a Consultation that both repositories fill from the same
\* source: the insert's fields, the generated ones and the updated ones
ComparedFields ==
  {"name", "email", "phone", "eventType", "eventDate", "location", "budget", "details",
   "status", "scheduledDateTime", "paymentStatus", "paymentIntentId", "bookingId"}
SameRecord(m, d) ==
  /\ m.id = d.id
  /\ m.id # NoId => \A f \in ComparedFields : m[f] = d[f]
SameRecords(ms, ds) ==
  /\ Len(ms) = Len(ds)
  /\ \A i \in 1 .. Len(ms) : SameRecord(ms[i], ds[i])
SameResult(r, q, list) ==
  /\ r.success = q.success
  /\ r.success => IF list THEN SameRecords(r.value, q.value)
                           ELSE SameRecord(r.value, q.value)

\* C21: MemStorage and DatabaseStorage, given the same sequence of IStorage
\* calls, return equal results and hold equal consultations after every call,
\* status and bookingId included.
C21_StoragesAgree ==
  [][req'.op \in DbCalls =>
       /\ SameResult(resp, resp', req'.op = "DbGetAllConsultations")
       /\ SameRecords(mem.consultations, consultations')]_vars

(* ------------------------------- C22 --------------------------------- *)
MemUpdateCalls ==
  {"MemUpdateConsultationSchedule", "MemUpdateConsultationPayment",
   "MemUpdateConsultationStatus"}
DbUpdateCalls ==
  {"DbUpdateConsultationSchedule", "DbUpdateConsultationPayment",
   "DbUpdateConsultationStatus"}
\* C22: an update operation of either repository, called with an id that
\* matches no consultation, fails (NotFound) and leaves the store unchanged.
C22_UpdateUnknownIdFails ==
  [][/\ req'.op \in MemUpdateCalls /\ MemGet(req'.id) = NoRow
        => ~resp'.success /\ mem' = mem
     /\ req'.op \in DbUpdateCalls /\ ConsultationsById(req'.id) = <<>>
        => ~resp'.success /\ consultations' = consultations]_vars

(* ------------------------------- C23 --------------------------------- *)
InsertUsers == {[username |-> "asha", password |-> "pw1"],
                [username |-> "ravi", password |-> "pw2"]}
NextMem ==
  \/ \E u \in InsertUsers : MemCreateUser(u)
  \/ MemCreateConsultation(ConsultationInput)
  \/ \E id \in ConsultationIds : MemGetConsultation(id)
  \/ \E id \in ConsultationIds : MemUpdateConsultationSchedule(id, "2030-05-01T10:00")
  \/ \E id \in ConsultationIds : MemUpdateConsultationPayment(id, "pi_1", "paid")
  \/ \E id \in ConsultationIds, st \in StorageStatuses : MemUpdateConsultationStatus(id, st)
  \/ MemGetAllConsultations
  \/ MemCreateContactInquiry(ContactInput)
  \/ MemGetAllContactInquiries
SpecMem == Init /\ [][NextMem]_vars

\* the k-th record of the sequence has id k
IdsInOrder(records) == \A k \in 1 .. Len(records) : records[k].id = k
\* C23: in MemStorage the k-th record created of each kind has id k, the next
\* id is one more than the number of records created, and getAllConsultations
\* and getAllContactInquiries return the records in creation order, also
\* after updates of existing records.
C23_MemIdsAndOrder ==
  /\ IdsInOrder(mem.users) /\ mem.currentUserId = Len(mem.users) + 1
  /\ IdsInOrder(mem.consultations)
  /\ mem.currentConsultationId = Len(mem.consultations) + 1
  /\ IdsInOrder(mem.contactInquiries)
  /\ mem.currentContactId = Len(mem.contactInquiries) + 1
  /\ req.op \in {"MemCreateUser", "MemCreateConsultation", "MemCreateContactInquiry"}
     => resp.value.id = (CASE req.op = "MemCreateUser" -> Len(mem.users)
                          [] req.op = "MemCreateConsultation" -> Len(mem.consultations)
                          [] OTHER -> Len(mem.contactInquiries))
  /\ req.op = "MemGetAllConsultations"
     => resp.value = mem.consultations /\ IdsInOrder(resp.value)
  /\ req.op = "MemGetAllContactInquiries"
     => resp.value = mem.contactInquiries /\ IdsInOrder(resp.value)
\* getAllConsultations has returned two records of which the first had been
\* updated, and two users and two inquiries exist
C23_Witness ==
  /\ req.op = "MemGetAllConsultations"
  /\ Len(resp.value) = 2
  /\ resp.value[1].status = "scheduled"
  /\ resp.value[2].status = "pending"
  /\ Len(mem.users) = 2
  /\ Len(mem.contactInquiries) = 2

(* ------------------------------- C24 --------------------------------- *)
\* signup, login, reset request and reset of one account, with a clock step
\* that takes a pending reset token past its expiry
NextCredentials ==
  \/ Tick(ResetTtlMs + 1)
  \/ \E s \in Slots : SignupCheck(s, "a@x.com", "secret1", TRUE)
  \/ \E s \in Slots : SignupInsert(s)
  \/ \E p \in Passwords : Login("a@x.com", p)
  \/ \E s \in Slots, e \in Emails : ResetRequestRead(s, e)
  \/ \E s \in Slots, t \in ResetTokens : ResetRequestWrite(s, t, TRUE, TRUE)
  \/ \E s \in Slots, e \in Emails, t \in ResetTokens, p \in Passwords :
       PasswordResetRead(s, e, t, p)
  \/ \E s \in Slots : PasswordResetWrite(s)
SpecCredentials == Init /\ [][NextCredentials]_vars

ResetPairTogether(user) ==
  (user.passwordResetToken = Null) <=> (user.passwordResetExpires = NoTime)
\* C24: every user's passwordResetToken and passwordResetExpires are both set
\* or both null; only the update of a reset request (sets both) and the update
\* of a successful reset (clears both) write them, and a new account starts
\* with both null.
C24_TokenAndExpiryTogether ==
  [][/\ \A i \in 1 .. Len(users') : ResetPairTogether(users'[i])
     /\ req'.op \notin {"ResetRequestWrite", "PasswordResetWrite"}
        => /\ \A i \in 1 .. Len(users) :
                /\ users'[i].passwordResetToken = users[i].passwordResetToken
                /\ users'[i].passwordResetExpires = users[i].passwordResetExpires
           /\ \A i \in Len(users) + 1 .. Len(users') :
                /\ users'[i].passwordResetToken = Null
                /\ users'[i].passwordResetExpires = NoTime
     /\ req'.op = "ResetRequestWrite" /\ resp'.status = 200
        => \E i \in 1 .. Len(users') :
             /\ users'[i].email = req'.email
             /\ users'[i].passwordResetToken # Null
             /\ users'[i].passwordResetExpires # NoTime
     /\ req'.op = "PasswordResetWrite"
        => \E i \in 1 .. Len(users') :
             /\ users'[i].email = req'.email
             /\ users'[i].passwordResetToken = Null
             /\ users'[i].passwordResetExpires = NoTime]_vars
\* a reset has succeeded and left the account without token and expiry
C24_Witness ==
  /\ req.op = "PasswordResetWrite"
  /\ resp.status = 200
  /\ \E i \in 1 .. Len(users) :
       /\ users[i].email = req.email
       /\ users[i].passwordResetToken = Null
       /\ users[i].passwordResetExpires = NoTime

(* ------------------------------- C25 --------------------------------- *)
\* the statuses named by the schema's comments, and one no comment names
ConsultationStatuses == {"pending", "completed", "archived"}
ContactStatuses == {"new", "replied"}
ConsultationStatusBody(st) ==
  [status |-> st, scheduledDateTime |-> Absent, adminComment |-> Absent]
ContactStatusBody(st) == [status |-> st, adminComment |-> Absent]
NextStatus ==
  \/ PostConsultation(NoHeader, ConsultationInput, TRUE, TRUE)
  \/ PostContact(NoHeader, ContactInput, TRUE, TRUE)
  \/ \E id \in ConsultationIds, st \in ConsultationStatuses :
       AdminPatchConsultation(Bearer(AdminToken), id, ConsultationStatusBody(st))
  \/ \E id \in ContactIds, st \in ContactStatuses :
       AdminPatchContact(Bearer(AdminToken), id, ContactStatusBody(st))
  \/ \E id \in ConsultationIds, st \in ConsultationStatuses :
       DbUpdateConsultationStatus(id, st)
  \/ MemCreateConsultation(ConsultationInput)
  \/ \E id \in ConsultationIds, st \in ConsultationStatuses :
       MemUpdateConsultationStatus(id, st)
SpecStatus == InitSeeded /\ [][NextStatus]_vars

\* C25: no status transition is refused: an admin update of an existing
\* consultation or contact inquiry that supplies a non-empty status st, and
\* updateConsultationStatus(id, st) of either repository, leave the record
\* with status st whatever its status was.
C25_AnyStatusOverwrites ==
  [][req'.op \in {"AdminPatchConsultation", "AdminPatchContact",
                  "DbUpdateConsultationStatus", "MemUpdateConsultationStatus"} =>
     \A id \in {req'.id} :
       /\ \A st \in ConsultationStatuses :
            /\ AdminPatchConsultation(Bearer(AdminToken), id, ConsultationStatusBody(st))
               /\ Exists(id)
               => /\ resp'.status = 200
                  /\ Returning(consultations', id).status = st
            /\ DbUpdateConsultationStatus(id, st) /\ Exists(id)
               => Returning(consultations', id).status = st
            /\ MemUpdateConsultationStatus(id, st) /\ MemGet(id) # NoRow
               => /\ resp'.success
                  /\ Returning(mem'.consultations, id).status = st
       /\ \A st \in ContactStatuses :
            AdminPatchContact(Bearer(AdminToken), id, ContactStatusBody(st))
            /\ ContactExists(id)
            => /\ resp'.status = 200
               /\ Returning(contactInquiries', id).status = st]_vars
\* a completed consultation has been set back to pending by an admin update
C25_Witness ==
  /\ req.op = "AdminPatchConsultation"
  /\ req.was = "completed"
  /\ resp.status = 200
  /\ resp.consultation.status = "pending"
  /\ Row(req.id).status = "pending"

(* ------------------------------- C26 --------------------------------- *)
\* C26: of two POST /api/password-reset requests that carry the same valid
\* token for the same user and are handled concurrently, at most one changes
\* the password: a reset never succeeds with a token that another request has
\* already consumed.
C26_ConcurrentResetOnce ==
  [][req'.op = "PasswordResetWrite" /\ resp'.status = 200 =>
     \A s \in Slots :
       PasswordResetWrite(s) => <<inflight[s].user, inflight[s].token>> \notin spent]_vars

(* ------------------------------- C27 --------------------------------- *)
\* C27: at most one reset token of a user passes the reset's test, and a
\* reset attempted with a token that a later reset request of the same user
\* has overwritten with another one is answered 400 and changes nothing,
\* also before the overwritten token's own expiry.
C27_EarlierTokenRejected ==
  [][/\ \A i \in 1 .. Len(users'), t1 \in ResetTokens, t2 \in ResetTokens :
          /\ Truthy(users'[i].passwordResetToken)
          /\ ~ResetTokenRejected(users'[i], t1, now')
          /\ ~ResetTokenRejected(users'[i], t2, now')
          => t1 = t2
     /\ req'.op = "PasswordResetRead" =>
          \A s \in Slots, e \in {req'.email}, t \in {req'.token}, p \in Passwords :
            (/\ PasswordResetRead(s, e, t, p)
             /\ \E i \in 1 .. Len(users) :
                  /\ users[i].email = e
                  /\ users[i].passwordResetToken # t
                  /\ \E q \in superseded : q[1] = users[i].id /\ q[2] = t)
            => /\ resp' = Resp(400, FALSE, "Invalid or expired token")
               /\ AllTablesUnchanged]_vars
\* a reset with an overwritten token that has not reached its own expiry
\* has been turned down while the later token was pending
C27_Witness ==
  /\ req.op = "PasswordResetRead"
  /\ resp.status = 400
  /\ \E i \in 1 .. Len(users) :
       /\ users[i].email = req.email
       /\ Truthy(users[i].passwordResetToken)
       /\ users[i].passwordResetToken # req.token
       /\ \E q \in superseded :
            q[1] = users[i].id /\ q[2] = req.token /\ now < q[3]

(* ------------------------------- C28 --------------------------------- *)
\* C28: a successful reset with newPassword q leaves a hash that q matches
\* and no other password does; a login is answered 200 for the password the
\* stored hash matches and 401 for any other, so after the reset the previous
\* password is answered 401 and q is answered 200; a rejected reset (wrong or
\* expired token, unknown email, no pending token) leaves the users as they were.
C28_ResetThenLogin ==
  [][/\ req'.op = "PasswordResetWrite" =>
          \A s \in Slots :
            PasswordResetWrite(s)
            => LET after == First(SelectSeq(users', LAMBDA u : u.id = inflight[s].user),
                                  NoRow)
               IN  /\ resp'.status = 200
                   /\ after # NoRow
                   /\ \A p \in Passwords :
                        BcryptCompare(p, after.passwordHash) <=> p = inflight[s].newPassword
     /\ req'.op = "Login" =>
          \A p \in Passwords :
            Login("a@x.com", p) /\ Registered("a@x.com")
            => resp'.status = IF PasswordOf("a@x.com", p) THEN 200 ELSE 401
     /\ req'.op = "PasswordResetRead" /\ resp'.status = 400 => users' = users]_vars
\* the password was reset to another one, and a login with the password of
\* the signup has been answered 401
C28_Witness ==
  /\ req.op = "Login"
  /\ resp.status = 401
  /\ PasswordOf("a@x.com", "secret2")
  /\ \E q \in spent : q[1] = 1

(* ------------------------------- C29 --------------------------------- *)
\* an owner's consultations, updated by the admin and by the owner, the
\* admin's update possibly falling between the owner's select and update
NextCommute ==
  \/ PostConsultation(Bearer(UserToken(1, "a@x.com")), ConsultationInput, TRUE, TRUE)
  \/ \E a \in AdminBodies : AdminPatchConsultation(Bearer(AdminToken), 1, a)
  \/ \E s \in Slots, b \in OwnerBodies :
       OwnerPatchRead(s, Bearer(UserToken(1, "a@x.com")), 1, b)
  \/ \E s \in Slots : OwnerPatchWrite(s)
SpecCommute == InitSeeded /\ [][NextCommute]_vars

AdminFields == {"status", "scheduledDateTime", "adminComment"}
AdminThenOwner(table, id, a, b) ==
  UpdateById(UpdateById(table, id, AdminConsultationSet(a)), id, OwnerSet(b))
OwnerThenAdmin(table, id, a, b) ==
  UpdateById(UpdateById(table, id, OwnerSet(b)), id, AdminConsultationSet(a))
\* C29: the admin update writes only status, scheduledDateTime and
\* adminComment, the owner update only eventType, eventDate, location, budget
\* and details; on every table the two updates of a consultation give the
\* same record in either order, whenever the admin update falls; and no step
\* changes the userId of an existing consultation.
C29_AdminOwnerCommute ==
  [][/\ consultations' # consultations
        => \A id \in ConsultationIds, a \in AdminBodies, b \in OwnerBodies :
             AdminThenOwner(consultations', id, a, b)
               = OwnerThenAdmin(consultations', id, a, b)
     /\ Len(consultations') >= Len(consultations)
     /\ \A i \in 1 .. Len(consultations) :
          /\ consultations'[i].userId = consultations[i].userId
          /\ req'.op = "OwnerPatchWrite"
             => \A f \in AdminFields : consultations'[i][f] = consultations[i][f]
          /\ req'.op = "AdminPatchConsultation"
             => \A f \in OwnerFields : consultations'[i][f] = consultations[i][f]]_vars
\* the owner's update has been answered with a record that carries the
\* owner's values and the values of an admin update
C29_Witness ==
  /\ req.op = "OwnerPatchWrite"
  /\ resp.status = 200
  /\ resp.consultation.eventType = "gala"
  /\ resp.consultation.status = "completed"
  /\ resp.consultation.scheduledDateTime = "2030-05-01T10:00"
  /\ Row(req.id) = resp.consultation

====
